---- MODULE Spec2Model ----
(***************************************************************************)
(* Model of app.py: the in-memory configuration store (lifespan,           *)
(* get_config, update_config), the Content Guard call (_apply_guardrails), *)
(* the chat turn mediation (chat), and the file mediations                 *)
(* (scan_uploaded_file, test_eicar, test_hello).                           *)
(*                                                                         *)
(* Python strings that the code converts (strip, rstrip, lower, slicing)   *)
(* are sequences of one-character strings, so that each conversion is      *)
(* computed as the code computes it.  Strings the code only passes along   *)
(* (message contents, reasons) are plain TLA+ strings.                     *)
(***************************************************************************)
EXTENDS Integers, Sequences, FiniteSets, TLC

(***************************************************************************)
(* Python string operations                                                *)
(***************************************************************************)
Whitespace == {" "}

UpperCase == <<"A", "B", "C", "D", "E", "F", "G", "H", "I", "J", "K", "L", "M",
               "N", "O", "P", "Q", "R", "S", "T", "U", "V", "W", "X", "Y", "Z">>

LowerCase == <<"a", "b", "c", "d", "e", "f", "g", "h", "i", "j", "k", "l", "m",
               "n", "o", "p", "q", "r", "s", "t", "u", "v", "w", "x", "y", "z">>

\* str.lower() on one character
LowerChar(c) ==
    IF \E i \in 1..Len(UpperCase) : UpperCase[i] = c
    THEN LowerCase[CHOOSE i \in 1..Len(UpperCase) : UpperCase[i] = c]
    ELSE c

\* str.lower()
lower(s) == [i \in 1..Len(s) |-> LowerChar(s[i])]

\* str.rstrip(chars): drop every trailing character that is in chars
RECURSIVE rstripSet(_, _)
rstripSet(s, chars) ==
    IF s # <<>> /\ s[Len(s)] \in chars
    THEN rstripSet(SubSeq(s, 1, Len(s) - 1), chars)
    ELSE s

\* str.lstrip(chars)
RECURSIVE lstripSet(_, _)
lstripSet(s, chars) ==
    IF s # <<>> /\ s[1] \in chars
    THEN lstripSet(Tail(s), chars)
    ELSE s

\* str.strip(): whitespace off both ends
strip(s) == lstripSet(rstripSet(s, Whitespace), Whitespace)

\* str.rstrip("/")
rstripSlash(s) == rstripSet(s, {"/"})

\* str.endswith(suffix)
endswith(s, suffix) ==
    /\ Len(s) >= Len(suffix)
    /\ SubSeq(s, Len(s) - Len(suffix) + 1, Len(s)) = suffix

\* Python `a or b` on strings: the empty string is falsy
OrStr(a, b) == IF a # <<>> THEN a ELSE b

\* "*" * n   (the empty string when n <= 0)
Stars(n) == [i \in 1..n |-> "*"]

(***************************************************************************)
(* String literals of the source                                           *)
(***************************************************************************)
\* stand-in for the literal of DEFAULT_GUARD_URL: a non-empty URL with no
\* surrounding whitespace and no trailing slash, as the literal is
DEFAULT_GUARD_URL == <<"g", "u", "a", "r", "d">>

S_both == <<"b", "o", "t", "h">>
S_user == <<"u", "s", "e", "r">>
S_assistant == <<"a", "s", "s", "i", "s", "t", "a", "n", "t">>
S_api == <<"/", "a", "p", "i">>
S_true == <<"t", "r", "u", "e">>
S_one == <<"1">>
S_yes == <<"y", "e", "s">>
S_region == <<"u", "s">>
S_mask3 == <<"*", "*", "*">>

EnforceSides == {S_user, S_assistant, S_both}
TruthyEnv == {S_true, S_one, S_yes}

VARIABLES
    config,          \* _config
    started,         \* the lifespan startup has run
    V1FS_AVAILABLE,  \* whether `import amaas.grpc` succeeded
    req,             \* body of the last configuration request served
    resp             \* response of the last configuration request served

cfgVars == <<config, started, V1FS_AVAILABLE, req, resp>>

\* the module-level _config literal
DefaultConfig ==
    [ollama_base_url |-> <<>>,
     ollama_model |-> <<>>,
     v1_guard_api_key |-> <<>>,
     v1_guard_url_base |-> DEFAULT_GUARD_URL,
     v1_guard_enabled |-> TRUE,
     v1_guard_detailed |-> FALSE,
     enforce_side |-> S_both,
     v1fs_api_key |-> <<>>,
     v1fs_region |-> S_region,
     v1fs_enabled |-> TRUE]

\* field defaults of the ConfigUpdate model
ConfigUpdate ==
    [ollama_base_url |-> <<>>,
     ollama_model |-> <<>>,
     v1_guard_api_key |-> <<>>,
     v1_guard_url_base |-> DEFAULT_GUARD_URL,
     v1_guard_enabled |-> TRUE,
     v1_guard_detailed |-> FALSE,
     enforce_side |-> S_both,
     v1fs_api_key |-> <<>>,
     v1fs_region |-> S_region,
     v1fs_enabled |-> TRUE]

NoBody == [none |-> TRUE]
NoResp == [none |-> TRUE]

CfgInit ==
    /\ config = DefaultConfig
    /\ started = FALSE
    /\ V1FS_AVAILABLE \in BOOLEAN
    /\ req = NoBody
    /\ resp = NoResp

(***************************************************************************)
(* lifespan: seed the configuration from the environment                   *)
(***************************************************************************)
\* os.environ.get(name, default)
Getenv(env, name, default) == IF name \in DOMAIN env THEN env[name] ELSE default

\* os.environ.get("ENFORCE_SIDE", "both").lower() or "both"
EnvEnforceSide(env) == OrStr(lower(Getenv(env, "ENFORCE_SIDE", S_both)), S_both)

\* os.environ.get(name, "true").lower() in ("true", "1", "yes")
EnvFlag(env, name) == lower(Getenv(env, name, S_true)) \in TruthyEnv

LifespanConfig(env) ==
    LET base_url == strip(Getenv(env, "OLLAMA_BASE_URL", <<>>))
        model == strip(Getenv(env, "OLLAMA_MODEL", <<>>))
        guard_key == strip(Getenv(env, "V1_GUARD_API_KEY", <<>>))
        guard_url == strip(Getenv(env, "V1_GUARD_URL_BASE", DEFAULT_GUARD_URL))
        v1fs_key == strip(Getenv(env, "V1FS_API_KEY", <<>>))
        v1fs_region == strip(Getenv(env, "V1FS_REGION", S_region))
    IN  IF base_url # <<>> \/ model # <<>> \/ guard_key # <<>> \/ v1fs_key # <<>>
        THEN [config EXCEPT
                !.ollama_base_url = OrStr(base_url, @),
                !.ollama_model = OrStr(model, @),
                !.v1_guard_api_key = OrStr(guard_key, @),
                !.v1_guard_url_base = OrStr(guard_url, @),
                !.v1_guard_enabled = EnvFlag(env, "V1_GUARD_ENABLED"),
                !.enforce_side = EnvEnforceSide(env),
                !.v1fs_api_key = OrStr(v1fs_key, @),
                !.v1fs_region = OrStr(v1fs_region, @),
                !.v1fs_enabled = EnvFlag(env, "V1FS_ENABLED")]
        ELSE config

(***************************************************************************)
(* get_config / update_config                                              *)
(***************************************************************************)
_mask_key(key) ==
    IF key = <<>> \/ Len(key) < 8
    THEN S_mask3
    ELSE SubSeq(key, 1, 4) \o Stars(Len(key) - 6) \o SubSeq(key, Len(key) - 1, Len(key))

\* {}
EmptyDict == <<>>

\* the source lines of get_config that add an entry to the returned dictionary
ViewLines == <<108, 109, 110, 111, 112, 113, 114, 115, 116, 117, 118, 119, 120>>

\* the dictionary under construction after one line of get_config has read
\* the stored record c
ViewAfterLine(line, c, snap) ==
    CASE line = 108 -> ("ollama_base_url" :> c.ollama_base_url) @@ snap
      [] line = 109 -> ("ollama_model" :> c.ollama_model) @@ snap
      [] line = 110 -> ("v1_guard_api_key_set" :> (c.v1_guard_api_key # <<>>)) @@ snap
      [] line = 111 -> ("v1_guard_api_key_masked" :>
                           IF c.v1_guard_api_key # <<>>
                           THEN _mask_key(c.v1_guard_api_key) ELSE <<>>) @@ snap
      [] line = 112 -> ("v1_guard_url_base" :> c.v1_guard_url_base) @@ snap
      [] line = 113 -> ("v1_guard_enabled" :> c.v1_guard_enabled) @@ snap
      [] line = 114 -> ("v1_guard_detailed" :> c.v1_guard_detailed) @@ snap
      [] line = 115 -> ("enforce_side" :> c.enforce_side) @@ snap
      [] line = 116 -> ("v1fs_api_key_set" :> (c.v1fs_api_key # <<>>)) @@ snap
      [] line = 117 -> ("v1fs_api_key_masked" :>
                           IF c.v1fs_api_key # <<>>
                           THEN _mask_key(c.v1fs_api_key) ELSE <<>>) @@ snap
      [] line = 118 -> ("v1fs_region" :> c.v1fs_region) @@ snap
      [] line = 119 -> ("v1fs_enabled" :> c.v1fs_enabled) @@ snap
      [] line = 120 -> ("v1fs_available" :> V1FS_AVAILABLE) @@ snap

RECURSIVE ViewFrom(_, _, _)
ViewFrom(i, c, snap) ==
    IF i > Len(ViewLines) THEN snap
    ELSE ViewFrom(i + 1, c, ViewAfterLine(ViewLines[i], c, snap))

\* the dictionary get_config returns when the stored record is c throughout
ConfigView(c) == ViewFrom(1, c, EmptyDict)

\* lines 127-129: the normalised model base URL
NormBaseUrl(raw) ==
    LET base_url == rstripSlash(strip(raw))
    IN  IF endswith(base_url, S_api)
        THEN rstripSlash(SubSeq(base_url, 1, Len(base_url) - 4))
        ELSE base_url

\* the source lines of update_config that write _config
UpdateLines == <<130, 131, 132, 133, 134, 135, 136, 137, 139, 140, 141>>

\* the stored record after one line of update_config has run on the record c
\* (line 130 with the lines 127-129 that compute its value, line 137 with
\* the assignment of line 138 that it guards)
ConfigAfterLine(line, body, c) ==
    CASE line = 130 -> [c EXCEPT !.ollama_base_url = NormBaseUrl(body.ollama_base_url)]
      [] line = 131 -> [c EXCEPT !.ollama_model = strip(body.ollama_model)]
      [] line = 132 -> [c EXCEPT !.v1_guard_api_key = strip(body.v1_guard_api_key)]
      [] line = 133 -> [c EXCEPT !.v1_guard_url_base =
                           rstripSlash(strip(OrStr(body.v1_guard_url_base, DEFAULT_GUARD_URL)))]
      [] line = 134 -> [c EXCEPT !.v1_guard_enabled = body.v1_guard_enabled]
      [] line = 135 -> [c EXCEPT !.v1_guard_detailed = body.v1_guard_detailed]
      [] line = 136 -> [c EXCEPT !.enforce_side = lower(OrStr(body.enforce_side, S_both))]
      [] line = 137 -> IF c.enforce_side \notin EnforceSides
                       THEN [c EXCEPT !.enforce_side = S_both]
                       ELSE c
      [] line = 139 -> [c EXCEPT !.v1fs_api_key = strip(body.v1fs_api_key)]
      [] line = 140 -> [c EXCEPT !.v1fs_region = strip(OrStr(body.v1fs_region, S_region))]
      [] line = 141 -> [c EXCEPT !.v1fs_enabled = body.v1fs_enabled]

RECURSIVE UpdateFrom(_, _, _)
UpdateFrom(i, body, c) ==
    IF i > Len(UpdateLines) THEN c
    ELSE UpdateFrom(i + 1, body, ConfigAfterLine(UpdateLines[i], body, c))

\* the record update_config leaves in _config when nothing else writes it
\* meanwhile: every field is overwritten, so the record before does not matter
NormalizedConfig(body) == UpdateFrom(1, body, DefaultConfig)

(***************************************************************************)
(* Inputs of the configuration operations                                  *)
(***************************************************************************)
\* process environments at startup (PATH stands for the unrelated variables)
Envs ==
    {[PATH |-> <<"/">>],
     [PATH |-> <<"/">>, ENFORCE_SIDE |-> <<"n", "o", "n", "e">>],
     [PATH |-> <<"/">>, OLLAMA_MODEL |-> <<"m">>, ENFORCE_SIDE |-> <<"U", "s", "e", "r">>],
     [PATH |-> <<"/">>, OLLAMA_BASE_URL |-> <<" ", "h">>, OLLAMA_MODEL |-> <<"m">>,
      V1_GUARD_API_KEY |-> <<"k">>, ENFORCE_SIDE |-> <<"n", "o", "n", "e">>],
     [PATH |-> <<"/">>, OLLAMA_MODEL |-> <<"m">>, V1_GUARD_URL_BASE |-> <<>>,
      ENFORCE_SIDE |-> <<>>, V1_GUARD_ENABLED |-> <<"Y", "E", "S">>],
     [PATH |-> <<"/">>, V1FS_API_KEY |-> <<"f">>, V1FS_ENABLED |-> <<"n", "o">>,
      V1_GUARD_ENABLED |-> <<"0">>, V1FS_REGION |-> <<"e", "u">>]}

\* API keys submitted in a configuration update
KeyInputs ==
    {<<>>,
     <<" ">>,
     <<"a", "b">>,
     <<" ", "a", "b", " ">>,
     <<"*", "*", "*">>,
     <<"a", "b", "c", "d", "e", "f", "g">>,
     <<"a", "b", "c", "d", "e", "f", "g", "h">>,
     <<"a", "b", "c", "d", "*", "*", "g", "h">>,
     <<"a", "b", "c", "d", "e", "f", "g", "h", "i">>}

FsKeyInputs == {<<>>, <<"f", "s">>, <<"1", "2", "3", "4", "5", "6", "7", "8">>}

\* enforcement sides submitted in a configuration update
EnforceInputs ==
    {<<>>, S_user, S_assistant, S_both, <<"U", "S", "E", "R">>,
     <<"n", "o", "n", "e">>, <<" ", "u", "s", "e", "r">>}

\* model base URLs submitted in a configuration update
UrlInputs ==
    {<<>>, <<"h">>, <<"h", "/">>, <<"h", "/", "a", "p", "i">>,
     <<" ", "h", "/", "a", "p", "i", "/", " ">>, <<"/", "a", "p", "i">>}

ConfigBodies ==
    {[ConfigUpdate EXCEPT !.v1_guard_api_key = k, !.enforce_side = e] :
        k \in KeyInputs, e \in EnforceInputs}
    \cup
    {[ConfigUpdate EXCEPT !.v1fs_api_key = f, !.ollama_base_url = u] :
        f \in FsKeyInputs, u \in UrlInputs}

(***************************************************************************)
(* Configuration operations, each handler as one step                      *)
(***************************************************************************)
lifespan(env) ==
    /\ ~started
    /\ config' = LifespanConfig(env)
    /\ started' = TRUE
    /\ UNCHANGED <<V1FS_AVAILABLE, req, resp>>

get_config ==
    /\ started
    /\ req' = NoBody
    /\ resp' = ConfigView(config)
    /\ UNCHANGED <<config, started, V1FS_AVAILABLE>>

update_config(body) ==
    /\ started
    /\ config' = NormalizedConfig(body)
    /\ req' = body
    /\ resp' = ConfigView(NormalizedConfig(body))
    /\ UNCHANGED <<started, V1FS_AVAILABLE>>

(***************************************************************************)
(* Python dictionaries                                                     *)
(***************************************************************************)
\* d.get(k, default)
DictGet(d, k, default) == IF k \in DOMAIN d THEN d[k] ELSE default

\* None, where a dictionary may stand
None == [None |-> TRUE]

(***************************************************************************)
(* _apply_guardrails                                                       *)
(***************************************************************************)
S_allow == <<"a", "l", "l", "o", "w">>
S_block == <<"b", "l", "o", "c", "k">>
S_review == <<"r", "e", "v", "i", "e", "w">>

\* What the exchange with the Guard endpoint can produce: a JSON object
\* with a success status, a JSON value that is no object, a non-success
\* status (raise_for_status raises HTTPStatusError), any other exception.
GuardOutcomes ==
    {[kind |-> "json", body |-> [decision |-> S_block]],
     [kind |-> "json", body |-> [decision |-> <<"B", "l", "o", "c", "k">>, id |-> "g1"]],
     [kind |-> "json", body |-> [decision |-> S_allow, action |-> S_block]],
     [kind |-> "json", body |-> [decision |-> <<>>, action |-> S_block]],
     [kind |-> "json", body |-> [recommendation |-> S_block]],
     [kind |-> "json", body |-> [decision |-> S_review]],
     [kind |-> "json", body |-> [decision |-> S_review, action |-> S_block]],
     [kind |-> "json", body |-> [action |-> <<"B", "L", "O", "C", "K">>,
                                 recommendation |-> S_allow]],
     [kind |-> "json", body |-> [allowed |-> FALSE, reason |-> "Unsafe"]],
     [kind |-> "json", body |-> [id |-> "g2"]],
     [kind |-> "nondict"],
     [kind |-> "status", status_code |-> "403", text |-> "forbidden"],
     [kind |-> "exception", message |-> "timed out"]}

GuardVerdict_NoLower(result) ==
    LET decision == OrStr(OrStr(OrStr(DictGet(result, "decision", <<>>),
                                      DictGet(result, "action", <<>>)),
                                DictGet(result, "recommendation", <<>>)),
                          S_allow)
    IN  ("is_malicious" :> (decision = S_block))
            @@ ("allowed" :> (decision # S_block))
            @@ result

\* lines 193-199: the verdict made from a JSON object
GuardVerdict(result) ==
    LET decision == lower(OrStr(OrStr(OrStr(DictGet(result, "decision", <<>>),
                                            DictGet(result, "action", <<>>)),
                                      DictGet(result, "recommendation", <<>>)),
                                S_allow))
    IN  ("is_malicious" :> (decision = S_block))
            @@ ("allowed" :> (decision # S_block))
            @@ result

\* whether _apply_guardrails gets as far as the HTTP request (line 169)
GuardConfigured(api_key, guard_url) == api_key # <<>> /\ guard_url # <<>>

_apply_guardrails_FailClosed(text, api_key, guard_url, detailed, outcome) ==
    IF ~GuardConfigured(api_key, guard_url)
    THEN [allowed |-> TRUE, reason |-> "Guard not configured", is_error |-> TRUE]
    ELSE CASE outcome.kind = "json" -> GuardVerdict(outcome.body)
           [] outcome.kind = "status" ->
                [allowed |-> TRUE, reason |-> "Guard API error: " \o outcome.status_code,
                 detail |-> outcome.text, is_error |-> TRUE]
           [] outcome.kind = "nondict" ->
                [allowed |-> FALSE, is_malicious |-> TRUE,
                 reason |-> "object has no attribute get", is_error |-> TRUE]
           [] outcome.kind = "exception" ->
                [allowed |-> FALSE, is_malicious |-> TRUE,
                 reason |-> outcome.message, is_error |-> TRUE]

\* the dictionary _apply_guardrails returns; a JSON value that is no object
\* raises AttributeError at result.get, inside the try
_apply_guardrails(text, api_key, guard_url, detailed, outcome) ==
    IF ~GuardConfigured(api_key, guard_url)
    THEN [allowed |-> TRUE, reason |-> "Guard not configured", is_error |-> TRUE]
    ELSE CASE outcome.kind = "json" -> GuardVerdict(outcome.body)
           [] outcome.kind = "status" ->
                [allowed |-> TRUE, reason |-> "Guard API error: " \o outcome.status_code,
                 detail |-> outcome.text, is_error |-> TRUE]
           [] outcome.kind = "nondict" ->
                [allowed |-> TRUE, reason |-> "object has no attribute get",
                 is_error |-> TRUE]
           [] outcome.kind = "exception" ->
                [allowed |-> TRUE, reason |-> outcome.message, is_error |-> TRUE]

(***************************************************************************)
(* chat                                                                    *)
(***************************************************************************)
VARIABLE chat    \* the chat turn in progress: its locals, where it waits,
                 \* its response, and the outbound calls it has made

BLOCKED_PROMPT == "[Blocked by AI Guard] Your prompt was flagged as unsafe."
BLOCKED_RESPONSE == "[Blocked by AI Guard] The model response was flagged as unsafe."

\* What the exchange with the model endpoint can produce: a JSON object, a
\* JSON value that is no object, ConnectError, a non-success status, a body
\* that is not JSON (ValueError), any other exception (a read timeout).
OllamaOutcomes ==
    {[kind |-> "json", data |-> [message |-> [role |-> "assistant", content |-> "reply"]]],
     [kind |-> "json", data |-> [message |-> [role |-> "assistant", content |-> ""]]],
     [kind |-> "json", data |-> [message |-> [role |-> "assistant"]]],
     [kind |-> "json", data |-> [done |-> TRUE]],
     [kind |-> "nondict"],
     [kind |-> "connect"],
     [kind |-> "status", status_code |-> 404, text |-> "model not found"],
     [kind |-> "badjson"],
     [kind |-> "exception"]}

\* message lists of a chat request
ChatRequests ==
    {<<>>,
     <<[role |-> "user", content |-> "hi"]>>,
     <<[role |-> "system", content |-> "sys"]>>,
     <<[role |-> "user", content |-> "hi"], [role |-> "user", content |-> ""]>>,
     <<[role |-> "user", content |-> "first"], [role |-> "assistant", content |-> "ok"]>>}

\* line 381: the content of the last message whose role is "user", else ""
RECURSIVE LastUser(_)
LastUser(messages) ==
    IF messages = <<>> THEN ""
    ELSE IF messages[Len(messages)].role = "user"
         THEN messages[Len(messages)].content
         ELSE LastUser(SubSeq(messages, 1, Len(messages) - 1))

ConfigMissing_Both(base_url, model) == base_url = <<>> /\ model = <<>>

\* line 376
ConfigMissing(base_url, model) == base_url = <<>> \/ model = <<>>

UserGuardApplies_IgnoreEnabled(guard_enabled, guard_key, enforce, last_user) ==
    /\ guard_key # <<>>
    /\ enforce \in {S_user, S_both}
    /\ last_user # ""

\* line 390
UserGuardApplies(guard_enabled, guard_key, enforce, last_user) ==
    /\ guard_enabled
    /\ guard_key # <<>>
    /\ enforce \in {S_user, S_both}
    /\ last_user # ""

AssistantGuardApplies_AnySide(guard_enabled, guard_key, enforce, assistant_message) ==
    /\ guard_enabled
    /\ guard_key # <<>>
    /\ assistant_message # ""

\* line 416
AssistantGuardApplies(guard_enabled, guard_key, enforce, assistant_message) ==
    /\ guard_enabled
    /\ guard_key # <<>>
    /\ enforce \in {S_assistant, S_both}
    /\ assistant_message # ""

IsMalicious_WrongKey(guard_result) == DictGet(guard_result, "malicious", FALSE)

\* lines 392 and 418: guard_result.get("is_malicious", False)
IsMalicious(guard_result) == DictGet(guard_result, "is_malicious", FALSE)

DataAfterAssistantGuard_KeepReply(data, guard_result) == data

\* lines 418-420: the model's JSON object after the assistant-side check
DataAfterAssistantGuard(data, guard_result) ==
    IF IsMalicious(guard_result)
    THEN [k \in DOMAIN data \cup {"message"} |->
            IF k = "message"
            THEN [role |-> "assistant", content |-> BLOCKED_RESPONSE]
            ELSE data[k]]
    ELSE data

\* line 413: (data.get("message") or {}).get("content") or ""
AssistantMessage(data) ==
    DictGet(DictGet(data, "message", EmptyDict), "content", "")

\* raise HTTPException(status_code, detail)
HTTPException(status_code, detail) == [status |-> status_code, detail |-> detail]

\* an exception no handler catches: the server answers 500
Unhandled == [status |-> 500, detail |-> "Internal Server Error"]

\* a returned dictionary
Ok(body) == [status |-> 200, body |-> body]

ChatIdle ==
    [pc |-> "idle",
     messages |-> <<>>,
     base_url |-> <<>>,
     model |-> <<>>,
     last_user |-> "",
     enforce |-> S_both,
     guard_enabled |-> FALSE,
     guard_key |-> <<>>,
     guard_url |-> <<>>,
     detailed |-> FALSE,
     guard_result |-> None,
     data |-> None,
     response |-> NoResp,
     \* what the turn has done so far
     guardLog |-> <<>>,      \* the _apply_guardrails calls: side and text
     guardPosts |-> 0,       \* the requests sent to the Guard endpoint
     ollamaCalls |-> 0,      \* the requests sent to the model endpoint
     guardArgs |-> <<>>,     \* the key and URL given to each _apply_guardrails call
     ollamaReq |-> None,     \* the request sent to the model endpoint
     userCall |-> "none",    \* how the user-side call went
     userVerdict |-> None,   \* what the user-side call returned
     asstCall |-> "none",    \* how the assistant-side call went
     asstVerdict |-> None]   \* what the assistant-side call returned

\* how a call to _apply_guardrails went: "unconfigured" when it returned at
\* line 170, else the kind of what the exchange produced
GuardCallKind(api_key, guard_url, outcome) ==
    IF GuardConfigured(api_key, guard_url) THEN outcome.kind ELSE "unconfigured"

\* 1 when a call to _apply_guardrails sends its request, else 0
PostCount(api_key, guard_url) == IF GuardConfigured(api_key, guard_url) THEN 1 ELSE 0

\* lines 166 and 391, 417: the key and the URL a call to _apply_guardrails is given
GuardArgs(api_key, guard_url) == [api_key |-> api_key, guard_url |-> guard_url]

\* lines 398-403: the request to the model endpoint
OllamaRequest(base_url, model, messages) ==
    [url |-> base_url \o <<"/", "a", "p", "i", "/", "c", "h", "a", "t">>,
     model |-> model,
     messages |-> messages,
     stream |-> FALSE]

\* lines 372-391: up to the first point where the turn waits
ChatStart(messages) ==
    /\ started
    /\ chat.pc \in {"idle", "done"}
    /\ LET base_url == config.ollama_base_url
           model == config.ollama_model
           last_user == LastUser(messages)
           enforce == config.enforce_side
           guard_enabled == config.v1_guard_enabled
           guard_key == config.v1_guard_api_key
           guard_url == config.v1_guard_url_base
           detailed == config.v1_guard_detailed
           read == [ChatIdle EXCEPT !.messages = messages,
                                    !.base_url = base_url,
                                    !.model = model]
           locals == [read EXCEPT !.last_user = last_user,
                                  !.enforce = enforce,
                                  !.guard_enabled = guard_enabled,
                                  !.guard_key = guard_key,
                                  !.guard_url = guard_url,
                                  !.detailed = detailed]
       IN  IF ConfigMissing(base_url, model)
           THEN chat' = [read EXCEPT
                           !.pc = "done",
                           !.response = HTTPException(400,
                               "Configure Ollama URL and model in Settings first.")]
           ELSE IF messages = <<>>
           THEN chat' = [read EXCEPT
                           !.pc = "done",
                           !.response = HTTPException(400, "messages is required")]
           ELSE IF UserGuardApplies(guard_enabled, guard_key, enforce, last_user)
           THEN chat' = [locals EXCEPT
                           !.pc = "guard_user",
                           !.guardLog = <<[side |-> "user", text |-> last_user]>>,
                           !.guardArgs = <<GuardArgs(guard_key, guard_url)>>,
                           !.guardPosts = PostCount(guard_key, guard_url)]
           ELSE chat' = [locals EXCEPT
                           !.pc = "ollama",
                           !.ollamaCalls = 1,
                           !.ollamaReq = OllamaRequest(base_url, model, messages)]
    /\ UNCHANGED cfgVars

\* lines 391-403: the user-side Guard call returns
ChatUserGuardReturn(outcome) ==
    /\ chat.pc = "guard_user"
    /\ LET guard_result == _apply_guardrails(chat.last_user, chat.guard_key,
                                             chat.guard_url, chat.detailed, outcome)
       IN  IF IsMalicious(guard_result)
           THEN chat' = [chat EXCEPT
                           !.pc = "done",
                           !.guard_result = guard_result,
                           !.userVerdict = guard_result,
                           !.userCall = GuardCallKind(chat.guard_key, chat.guard_url,
                                                      outcome),
                           !.response = Ok([message |-> [role |-> "assistant",
                                                         content |-> BLOCKED_PROMPT],
                                            guard |-> guard_result])]
           ELSE chat' = [chat EXCEPT
                           !.pc = "ollama",
                           !.guard_result = guard_result,
                           !.userVerdict = guard_result,
                           !.userCall = GuardCallKind(chat.guard_key, chat.guard_url,
                                                      outcome),
                           !.ollamaCalls = @ + 1,
                           !.ollamaReq = OllamaRequest(chat.base_url, chat.model,
                                                       chat.messages)]
    /\ UNCHANGED cfgVars

\* line 422
ChatResponse(data, guard_result) ==
    Ok([message |-> DictGet(data, "message", EmptyDict), guard |-> guard_result])

ChatOllamaReturn_RereadConfig(outcome) ==
    /\ chat.pc = "ollama"
    /\ CASE outcome.kind = "connect" ->
              chat' = [chat EXCEPT !.pc = "done",
                          !.response = HTTPException(502, "Cannot connect to Ollama")]
         [] outcome.kind = "status" ->
              chat' = [chat EXCEPT !.pc = "done",
                          !.response = HTTPException(outcome.status_code,
                                                     "Ollama error: " \o outcome.text)]
         [] outcome.kind = "badjson" ->
              chat' = [chat EXCEPT !.pc = "done",
                          !.response = HTTPException(502,
                              "Ollama returned invalid JSON. Check configuration.")]
         [] outcome.kind \in {"exception", "nondict"} ->
              chat' = [chat EXCEPT !.pc = "done", !.response = Unhandled]
         [] outcome.kind = "json" ->
              LET data == outcome.data
                  assistant_message == AssistantMessage(data)
              IN  IF AssistantGuardApplies(config.v1_guard_enabled,
                                           config.v1_guard_api_key,
                                           config.enforce_side, assistant_message)
                  THEN chat' = [chat EXCEPT
                                  !.pc = "guard_assistant",
                                  !.data = data,
                                  !.guardLog = Append(@, [side |-> "assistant",
                                                          text |-> assistant_message]),
                                  !.guardArgs = Append(@, GuardArgs(chat.guard_key,
                                                                    chat.guard_url)),
                                  !.guardPosts = @ + PostCount(chat.guard_key,
                                                               chat.guard_url)]
                  ELSE chat' = [chat EXCEPT
                                  !.pc = "done",
                                  !.data = data,
                                  !.response = ChatResponse(data, chat.guard_result)]
    /\ UNCHANGED cfgVars

\* lines 403-417 (and 422 when no assistant-side check runs): the model call returns
ChatOllamaReturn(outcome) ==
    /\ chat.pc = "ollama"
    /\ CASE outcome.kind = "connect" ->
              chat' = [chat EXCEPT !.pc = "done",
                          !.response = HTTPException(502, "Cannot connect to Ollama")]
         [] outcome.kind = "status" ->
              chat' = [chat EXCEPT !.pc = "done",
                          !.response = HTTPException(outcome.status_code,
                                                     "Ollama error: " \o outcome.text)]
         [] outcome.kind = "badjson" ->
              chat' = [chat EXCEPT !.pc = "done",
                          !.response = HTTPException(502,
                              "Ollama returned invalid JSON. Check configuration.")]
         [] outcome.kind \in {"exception", "nondict"} ->
              chat' = [chat EXCEPT !.pc = "done", !.response = Unhandled]
         [] outcome.kind = "json" ->
              LET data == outcome.data
                  assistant_message == AssistantMessage(data)
              IN  IF AssistantGuardApplies(chat.guard_enabled, chat.guard_key,
                                           chat.enforce, assistant_message)
                  THEN chat' = [chat EXCEPT
                                  !.pc = "guard_assistant",
                                  !.data = data,
                                  !.guardLog = Append(@, [side |-> "assistant",
                                                          text |-> assistant_message]),
                                  !.guardArgs = Append(@, GuardArgs(chat.guard_key,
                                                                    chat.guard_url)),
                                  !.guardPosts = @ + PostCount(chat.guard_key,
                                                               chat.guard_url)]
                  ELSE chat' = [chat EXCEPT
                                  !.pc = "done",
                                  !.data = data,
                                  !.response = ChatResponse(data, chat.guard_result)]
    /\ UNCHANGED cfgVars

ChatAssistantGuardReturn_KeepFirstVerdict(outcome) ==
    /\ chat.pc = "guard_assistant"
    /\ LET guard_result == _apply_guardrails(AssistantMessage(chat.data), chat.guard_key,
                                             chat.guard_url, chat.detailed, outcome)
           data == DataAfterAssistantGuard(chat.data, guard_result)
           kept == IF chat.guard_result = None THEN guard_result ELSE chat.guard_result
       IN  chat' = [chat EXCEPT
                       !.pc = "done",
                       !.guard_result = kept,
                       !.asstVerdict = guard_result,
                       !.asstCall = GuardCallKind(chat.guard_key, chat.guard_url, outcome),
                       !.data = data,
                       !.response = ChatResponse(data, kept)]
    /\ UNCHANGED cfgVars

\* lines 417-422: the assistant-side Guard call returns
ChatAssistantGuardReturn(outcome) ==
    /\ chat.pc = "guard_assistant"
    /\ LET guard_result == _apply_guardrails(AssistantMessage(chat.data), chat.guard_key,
                                             chat.guard_url, chat.detailed, outcome)
           data == DataAfterAssistantGuard(chat.data, guard_result)
       IN  chat' = [chat EXCEPT
                       !.pc = "done",
                       !.guard_result = guard_result,
                       !.asstVerdict = guard_result,
                       !.asstCall = GuardCallKind(chat.guard_key, chat.guard_url, outcome),
                       !.data = data,
                       !.response = ChatResponse(data, guard_result)]
    /\ UNCHANGED cfgVars

(***************************************************************************)
(* _scan_file_v1fs and the file mediations                                 *)
(***************************************************************************)
VARIABLES
    files,   \* the temporary files that exist
    scan     \* the file request in progress or last served

scanVars == <<files, scan>>

\* the json.loads value of a scan result that is a number, not an object
JsonNumber == [json_number |-> TRUE]

\* What a configured scan can produce: a JSON object, a JSON number, an
\* exception of the SDK (caught at line 220).
ScanOutcomes ==
    {[kind |-> "json", result |-> [scanResult |-> 0, foundMalwares |-> <<>>]],
     [kind |-> "json", result |-> [scanResult |-> 1, foundMalwares |-> <<"Eicar">>]],
     [kind |-> "json", result |-> [scanResult |-> 0, foundMalwares |-> <<"Eicar">>]],
     [kind |-> "json", result |-> [foundMalwares |-> <<"Eicar">>, fileName |-> "f"]],
     [kind |-> "json", result |-> [scanResult |-> 1]],
     [kind |-> "json", result |-> [fileName |-> "f"]],
     [kind |-> "number"],
     [kind |-> "exception", message |-> "unavailable"]}

_scan_file_v1fs(file_path, api_key, region, outcome) ==
    IF ~V1FS_AVAILABLE
    THEN [error |-> "V1FS SDK not installed"]
    ELSE IF api_key = <<>> \/ region = <<>>
    THEN [error |-> "V1FS not configured (missing API key or region)"]
    ELSE CASE outcome.kind = "json" -> outcome.result
           [] outcome.kind = "number" -> JsonNumber
           [] outcome.kind = "exception" ->
                [error |-> "V1FS scan failed: " \o outcome.message]

\* lines 238-243: the malicious flag of scan_uploaded_file, given the
\* dictionary the scanner returned
UploadMalicious(v1fs_result) ==
    IF "scanResult" \in DOMAIN v1fs_result /\ v1fs_result.scanResult # 0
    THEN TRUE
    ELSE IF "foundMalwares" \in DOMAIN v1fs_result /\ v1fs_result.foundMalwares # <<>>
    THEN TRUE
    ELSE FALSE

\* lines 266-268 and 285-287: the malicious flag of test_eicar and test_hello
\* (v1fs_result is None when the scanner is disabled)
SampleMalicious(v1fs_result) ==
    /\ v1fs_result # None
    /\ "scanResult" \in DOMAIN v1fs_result
    /\ v1fs_result.scanResult # 0

\* the names tempfile can give a new temporary file
MaxTmp == 3
TmpNames == 1..MaxTmp

\* how reading the upload and writing it to the temporary file can end
IoOutcomes == {"ok", "read_error", "write_error"}

ScanIdle ==
    [pc |-> "idle", handler |-> "", filename |-> "", tmp_path |-> 0,
     enabled |-> FALSE, v1fs_result |-> None, response |-> NoResp]

ScanInit ==
    /\ files = {}
    /\ scan = ScanIdle

\* the dictionary the three file handlers return
ScanResponse(filename, v1fs_result, malicious) ==
    Ok([filename |-> filename, v1fs_result |-> v1fs_result,
        guard_result |-> None, malicious |-> malicious])

\* line 228: scan_uploaded_file creates its temporary file, then waits for
\* the bytes of the upload
UploadBegin(filename, tmp) ==
    /\ started
    /\ scan.pc \in {"idle", "done"}
    /\ tmp \notin files
    /\ files' = files \cup {tmp}
    /\ scan' = [ScanIdle EXCEPT !.pc = "reading", !.handler = "scan_uploaded_file",
                                !.filename = filename, !.tmp_path = tmp]
    /\ UNCHANGED cfgVars

\* lines 229-230 raise: the with block closes the file, which was created
\* with delete=False, and the exception leaves the handler before the try
UploadIoFails(io) ==
    /\ scan.pc = "reading"
    /\ io # "ok"
    /\ scan' = [scan EXCEPT !.pc = "done", !.response = Unhandled]
    /\ UNCHANGED <<files, cfgVars>>

\* lines 229-253 when the bytes were read and written: scan, answer, unlink
UploadScan(outcome) ==
    /\ scan.pc = "reading"
    /\ LET enabled == config.v1fs_enabled
           v1fs_result == IF enabled
                          THEN _scan_file_v1fs(scan.tmp_path, config.v1fs_api_key,
                                               config.v1fs_region, outcome)
                          ELSE None
       IN  scan' = [scan EXCEPT
                       !.pc = "done",
                       !.enabled = enabled,
                       !.v1fs_result = v1fs_result,
                       !.response =
                           IF v1fs_result = JsonNumber
                           THEN Unhandled    \* `in` on a number raises TypeError
                           ELSE ScanResponse(scan.filename, v1fs_result,
                                             enabled /\ UploadMalicious(v1fs_result))]
    /\ files' = files \ {scan.tmp_path}
    /\ UNCHANGED cfgVars

\* test_eicar and test_hello: no point where the handler waits
SampleTest(handler, filename, tmp, io, outcome) ==
    /\ started
    /\ scan.pc \in {"idle", "done"}
    /\ tmp \notin files
    /\ io \in {"ok", "write_error"}
    /\ IF io # "ok"
       THEN /\ files' = files \cup {tmp}
            /\ scan' = [ScanIdle EXCEPT !.pc = "done", !.handler = handler,
                                        !.filename = filename, !.tmp_path = tmp,
                                        !.response = Unhandled]
       ELSE LET enabled == config.v1fs_enabled
                v1fs_result == IF enabled
                               THEN _scan_file_v1fs(tmp, config.v1fs_api_key,
                                                    config.v1fs_region, outcome)
                               ELSE None
            IN  /\ files' = files
                /\ scan' = [ScanIdle EXCEPT
                               !.pc = "done", !.handler = handler,
                               !.filename = filename, !.tmp_path = tmp,
                               !.enabled = enabled,
                               !.v1fs_result = v1fs_result,
                               !.response =
                                   IF v1fs_result = JsonNumber
                                   THEN Unhandled
                                   ELSE ScanResponse(filename, v1fs_result,
                                                     SampleMalicious(v1fs_result))]
    /\ UNCHANGED cfgVars

test_eicar(tmp, io, outcome) == SampleTest("test_eicar", "eicar.txt", tmp, io, outcome)

test_hello(tmp, io, outcome) == SampleTest("test_hello", "hello.txt", tmp, io, outcome)

(***************************************************************************)
(* get_config and update_config on the worker threads                      *)
(*                                                                         *)
(* Both handlers are plain `def` functions, which the framework runs on    *)
(* worker threads, several at a time.  No lock guards _config, so the      *)
(* threads interleave between the source lines: here each line that reads  *)
(* or writes _config is one step.                                          *)
(***************************************************************************)
VARIABLES
    threads,    \* per worker thread: the handler it runs and its next line
    installed,  \* the complete records given to _config so far
    begun       \* the number of requests the worker threads have taken

thrVars == <<threads, installed, begun>>

NThreads == 2
Threads == 1..NThreads

\* the requests followed through the worker threads
MaxRequests == 2

ThreadIdle == [op |-> "idle", i |-> 0, body |-> NoBody, snap |-> EmptyDict]

ThreadInit ==
    /\ threads = [t \in Threads |-> ThreadIdle]
    /\ installed = {}
    /\ begun = 0

\* request bodies of the concurrent updates
ThreadBodies ==
    {[ConfigUpdate EXCEPT !.ollama_base_url = <<"h">>, !.ollama_model = <<"m">>,
                          !.v1_guard_api_key = <<"k", "1">>,
                          !.enforce_side = <<"n", "o", "n", "e">>],
     [ConfigUpdate EXCEPT !.ollama_base_url = <<"i">>, !.ollama_model = <<"n">>,
                          !.v1_guard_api_key = <<>>,
                          !.enforce_side = S_user,
                          !.v1fs_enabled = FALSE]}

\* startup, remembering the record it leaves
ThreadLifespan(env) ==
    /\ lifespan(env)
    /\ installed' = {LifespanConfig(env)}
    /\ UNCHANGED <<threads, begun>>

\* a worker thread takes a POST /api/config
ThreadUpdateBegin(t, body) ==
    /\ started
    /\ begun < MaxRequests
    /\ threads[t].op \in {"idle", "done"}
    /\ threads' = [threads EXCEPT ![t] = [op |-> "update", i |-> 1, body |-> body,
                                          snap |-> EmptyDict]]
    /\ installed' = installed \cup {NormalizedConfig(body)}
    /\ begun' = begun + 1
    /\ UNCHANGED cfgVars

\* the thread runs the next writing line of update_config; after the last
\* one it goes on into get_config (line 142)
ThreadUpdateStep(t) ==
    /\ threads[t].op = "update"
    /\ config' = ConfigAfterLine(UpdateLines[threads[t].i], threads[t].body, config)
    /\ threads' = [threads EXCEPT ![t] =
                      IF threads[t].i < Len(UpdateLines)
                      THEN [@ EXCEPT !.i = @ + 1]
                      ELSE [@ EXCEPT !.op = "get", !.i = 1]]
    /\ UNCHANGED <<started, V1FS_AVAILABLE, req, resp, installed, begun>>

\* a worker thread takes a GET /api/config
ThreadGetBegin(t) ==
    /\ started
    /\ begun < MaxRequests
    /\ threads[t].op \in {"idle", "done"}
    /\ threads' = [threads EXCEPT ![t] = [op |-> "get", i |-> 1, body |-> NoBody,
                                          snap |-> EmptyDict]]
    /\ begun' = begun + 1
    /\ UNCHANGED <<cfgVars, installed>>

\* the thread runs the next reading line of get_config; after the last one
\* the dictionary is its response
ThreadGetStep(t) ==
    /\ threads[t].op = "get"
    /\ threads' = [threads EXCEPT ![t] =
                      [@ EXCEPT !.snap = ViewAfterLine(ViewLines[threads[t].i], config, @),
                                !.i = IF threads[t].i < Len(ViewLines) THEN @ + 1 ELSE 0,
                                !.op = IF threads[t].i < Len(ViewLines) THEN "get" ELSE "done"]]
    /\ UNCHANGED <<cfgVars, installed, begun>>

(***************************************************************************)
(* Specifications                                                          *)
(***************************************************************************)
vars == <<config, started, V1FS_AVAILABLE, req, resp, chat, files, scan,
          threads, installed, begun>>

Init ==
    /\ CfgInit
    /\ chat = ChatIdle
    /\ ScanInit
    /\ ThreadInit

\* --- the chat turn, with configuration updates between its steps ---------

\* request bodies of the configuration updates made around chat turns
Configured ==
    [ConfigUpdate EXCEPT !.ollama_base_url = <<"h", "/", "a", "p", "i">>,
                         !.ollama_model = <<"m">>,
                         !.v1_guard_api_key = <<"k">>]

ChatBodies ==
    {[Configured EXCEPT !.enforce_side = <<"B", "O", "T", "H">>],
     [Configured EXCEPT !.enforce_side = S_user, !.v1_guard_detailed = TRUE],
     [Configured EXCEPT !.enforce_side = S_assistant],
     [Configured EXCEPT !.v1_guard_api_key = <<" ">>],
     [Configured EXCEPT !.v1_guard_enabled = FALSE],
     [Configured EXCEPT !.v1_guard_url_base = <<"/">>],
     [Configured EXCEPT !.ollama_base_url = <<"/", "a", "p", "i">>],
     [Configured EXCEPT !.ollama_model = <<" ">>, !.v1_guard_api_key = <<>>]}

\* what the Guard endpoint produces in the chat turns
ChatGuardOutcomes ==
    {o \in GuardOutcomes :
        \/ o.kind # "json"
        \/ o.body \in {[decision |-> S_block], [decision |-> S_review],
                       [allowed |-> FALSE, reason |-> "Unsafe"]}}

Lifespan == \E env \in Envs : lifespan(env) /\ UNCHANGED <<chat, scanVars, thrVars>>

UpdateConfigChat ==
    \E body \in ChatBodies : update_config(body) /\ UNCHANGED <<chat, scanVars, thrVars>>

ChatStartStep ==
    \E messages \in ChatRequests : ChatStart(messages) /\ UNCHANGED <<scanVars, thrVars>>

ChatUserGuardReturnStep ==
    \E outcome \in ChatGuardOutcomes :
        ChatUserGuardReturn(outcome) /\ UNCHANGED <<scanVars, thrVars>>

ChatOllamaReturnStep ==
    \E outcome \in OllamaOutcomes :
        ChatOllamaReturn(outcome) /\ UNCHANGED <<scanVars, thrVars>>

ChatAssistantGuardReturnStep ==
    \E outcome \in ChatGuardOutcomes :
        ChatAssistantGuardReturn(outcome) /\ UNCHANGED <<scanVars, thrVars>>

Next ==
    \/ Lifespan
    \/ UpdateConfigChat
    \/ ChatStartStep
    \/ ChatUserGuardReturnStep
    \/ ChatOllamaReturnStep
    \/ ChatAssistantGuardReturnStep

Spec == Init /\ [][Next]_vars

\* --- the configuration store alone, each handler as one step -------------

UpdateConfig ==
    \E body \in ConfigBodies : update_config(body) /\ UNCHANGED <<chat, scanVars, thrVars>>

GetConfig == get_config /\ UNCHANGED <<chat, scanVars, thrVars>>

NextConfig ==
    \/ Lifespan
    \/ UpdateConfig
    \/ GetConfig

SpecConfig == Init /\ [][NextConfig]_vars

\* --- the file mediations, with configuration updates between them --------

\* request bodies of the configuration updates made around file requests
ScanBodies ==
    {[ConfigUpdate EXCEPT !.v1fs_api_key = f, !.v1fs_region = r, !.v1fs_enabled = en] :
        f \in {<<>>, <<"f", "s">>}, r \in {<<" ">>, <<"e", "u">>}, en \in BOOLEAN}

UpdateConfigScan ==
    \E body \in ScanBodies : update_config(body) /\ UNCHANGED <<chat, scanVars, thrVars>>

UploadBeginStep ==
    \E tmp \in TmpNames : UploadBegin("a.txt", tmp) /\ UNCHANGED <<chat, thrVars>>

UploadIoFailsStep ==
    \E io \in IoOutcomes : UploadIoFails(io) /\ UNCHANGED <<chat, thrVars>>

UploadScanStep ==
    \E outcome \in ScanOutcomes : UploadScan(outcome) /\ UNCHANGED <<chat, thrVars>>

TestEicarStep ==
    \E tmp \in TmpNames, io \in IoOutcomes, outcome \in ScanOutcomes :
        test_eicar(tmp, io, outcome) /\ UNCHANGED <<chat, thrVars>>

TestHelloStep ==
    \E tmp \in TmpNames, io \in IoOutcomes, outcome \in ScanOutcomes :
        test_hello(tmp, io, outcome) /\ UNCHANGED <<chat, thrVars>>

NextScan ==
    \/ Lifespan
    \/ UpdateConfigScan
    \/ UploadBeginStep
    \/ UploadIoFailsStep
    \/ UploadScanStep
    \/ TestEicarStep
    \/ TestHelloStep

SpecScan == Init /\ [][NextScan]_vars

\* --- the configuration handlers on concurrent worker threads -------------

ThreadLifespanStep ==
    \E env \in Envs : ThreadLifespan(env) /\ UNCHANGED <<chat, scanVars>>

ThreadUpdateBeginStep ==
    \E t \in Threads, body \in ThreadBodies :
        ThreadUpdateBegin(t, body) /\ UNCHANGED <<chat, scanVars>>

ThreadUpdateStepStep ==
    \E t \in Threads : ThreadUpdateStep(t) /\ UNCHANGED <<chat, scanVars>>

ThreadGetBeginStep ==
    \E t \in Threads : ThreadGetBegin(t) /\ UNCHANGED <<chat, scanVars>>

ThreadGetStepStep ==
    \E t \in Threads : ThreadGetStep(t) /\ UNCHANGED <<chat, scanVars>>

NextThreads ==
    \/ ThreadLifespanStep
    \/ ThreadUpdateBeginStep
    \/ ThreadUpdateStepStep
    \/ ThreadGetBeginStep
    \/ ThreadGetStepStep

SpecThreads == Init /\ [][NextThreads]_vars

\* --- the chat turn with Guard configured, every Guard response drawn ------

\* request bodies of the configuration updates: Guard enabled, keyed, and
\* each enforcement side
GuardBodies ==
    {[Configured EXCEPT !.enforce_side = side] : side \in EnforceSides}

UpdateConfigGuard ==
    \E body \in GuardBodies : update_config(body) /\ UNCHANGED <<chat, scanVars, thrVars>>

ChatUserGuardReturnAny ==
    \E outcome \in GuardOutcomes :
        ChatUserGuardReturn(outcome) /\ UNCHANGED <<scanVars, thrVars>>

ChatAssistantGuardReturnAny ==
    \E outcome \in GuardOutcomes :
        ChatAssistantGuardReturn(outcome) /\ UNCHANGED <<scanVars, thrVars>>

NextGuard ==
    \/ Lifespan
    \/ UpdateConfigGuard
    \/ ChatStartStep
    \/ ChatUserGuardReturnAny
    \/ ChatOllamaReturnStep
    \/ ChatAssistantGuardReturnAny

SpecGuard == Init /\ [][NextGuard]_vars

(***************************************************************************)
(* Properties                                                              *)
(***************************************************************************)
\* the verdict a chat response carries; an error response carries none
ReturnedGuard(response) ==
    IF response.status = 200 THEN response.body.guard ELSE None

\* the turn in progress got past the checks of lines 376-379
PassedConfigCheck ==
    /\ chat.pc # "idle"
    /\ chat.base_url # <<>>
    /\ chat.model # <<>>
    /\ chat.messages # <<>>

\* the turn in progress runs with Guard enabled and keyed
GuardOn == chat.guard_enabled /\ chat.guard_key # <<>>

\* the ways a call to _apply_guardrails fails
FailKinds == {"unconfigured", "status", "exception", "nondict"}

\* C1: in a turn with Guard enabled and keyed and the user side enforced,
\* once Content Guard has judged the last user message malicious the turn
\* is over, the model endpoint was never called, and the response is the
\* fixed blocked notice with that verdict attached.
C1_UserBlockShortCircuits ==
    (/\ GuardOn
     /\ chat.enforce \in {S_user, S_both}
     /\ DictGet(chat.userVerdict, "is_malicious", FALSE))
    => /\ chat.pc = "done"
       /\ chat.ollamaCalls = 0
       /\ chat.response = Ok([message |-> [role |-> "assistant",
                                           content |-> BLOCKED_PROMPT],
                              guard |-> chat.userVerdict])

C1_Witness ==
    /\ chat.pc = "done"
    /\ GuardOn
    /\ chat.enforce = S_user
    /\ chat.guardLog = <<[side |-> "user", text |-> "hi"]>>
    /\ DictGet(chat.userVerdict, "is_malicious", FALSE)
    /\ chat.response.status = 200

\* C2: a turn that passed the configuration check with Guard disabled or
\* unkeyed never calls Content Guard, has called the model endpoint exactly
\* once, and returns no guard verdict, whatever the side and the messages.
C2_NoGuardWhenOffOrUnkeyed ==
    (PassedConfigCheck /\ ~GuardOn)
    => /\ chat.guardLog = <<>>
       /\ chat.guardPosts = 0
       /\ chat.ollamaCalls = 1
       /\ chat.pc = "done" => ReturnedGuard(chat.response) = None

C2_Witness ==
    /\ chat.pc = "done"
    /\ PassedConfigCheck
    /\ ~chat.guard_enabled
    /\ chat.guard_key # <<>>
    /\ chat.enforce = S_both
    /\ chat.last_user = "hi"
    /\ chat.response.status = 200
    /\ chat.response.body.guard = None

\* C3: in a turn with Guard enabled and keyed and the assistant side
\* enforced, once Content Guard has judged the model's non-empty reply
\* malicious, the returned text is the fixed blocked notice, not the reply,
\* and the model endpoint was called exactly once.
C3_AssistantBlockReplaces ==
    (/\ GuardOn
     /\ chat.enforce \in {S_assistant, S_both}
     /\ DictGet(chat.asstVerdict, "is_malicious", FALSE))
    => /\ chat.pc = "done"
       /\ chat.ollamaCalls = 1
       /\ chat.response.status = 200
       /\ chat.response.body.message.content = BLOCKED_RESPONSE
       /\ chat.guardLog[Len(chat.guardLog)].text # ""
       /\ chat.response.body.message.content # chat.guardLog[Len(chat.guardLog)].text

C3_Witness ==
    /\ chat.pc = "done"
    /\ GuardOn
    /\ chat.enforce = S_assistant
    /\ chat.guardLog = <<[side |-> "assistant", text |-> "reply"]>>
    /\ DictGet(chat.asstVerdict, "is_malicious", FALSE)
    /\ chat.response.status = 200

\* keys and URLs a call to _apply_guardrails may be given
GuardKeyInputs == {<<>>, <<"k">>}
GuardUrlInputs == {<<>>, DEFAULT_GUARD_URL}

\* C4: Content Guard fails open.  A call with the key or the URL missing,
\* a non-success status or any exception returns a verdict that is not
\* malicious, is allowed and is tagged as an error; and in a chat turn a
\* failed call never ends the turn before the model call nor replaces the
\* assistant text.
C4_GuardFailsOpen ==
    /\ \A key \in GuardKeyInputs, url \in GuardUrlInputs, o \in GuardOutcomes :
          GuardCallKind(key, url, o) \in FailKinds
          => LET v == _apply_guardrails("text", key, url, FALSE, o)
             IN  /\ ~DictGet(v, "is_malicious", FALSE)
                 /\ DictGet(v, "allowed", FALSE)
                 /\ DictGet(v, "is_error", FALSE)
    /\ chat.userCall \in FailKinds
       => /\ chat.ollamaCalls = 1
          /\ DictGet(chat.userVerdict, "is_error", FALSE)
          /\ chat.pc = "done" /\ chat.response.status = 200
             => chat.response.body.message # [role |-> "assistant",
                                              content |-> BLOCKED_PROMPT]
    /\ chat.asstCall \in FailKinds
       => /\ chat.pc = "done"
          /\ DictGet(chat.asstVerdict, "is_error", FALSE)
          /\ chat.response = Ok([message |-> [role |-> "assistant",
                                              content |-> chat.guardLog[Len(chat.guardLog)].text],
                                 guard |-> chat.asstVerdict])

C4_Witness ==
    /\ chat.pc = "done"
    /\ chat.userCall = "exception"
    /\ chat.asstCall = "status"
    /\ chat.response.status = 200
    /\ chat.response.body.message.content = "reply"

\* C5: the stored enforcement side is always one of user, assistant, both;
\* after an update whose side is none of them in any letter case it is both.
C5_EnforceSideValid ==
    /\ config.enforce_side \in EnforceSides
    /\ (req # NoBody /\ lower(req.enforce_side) \notin EnforceSides)
       => config.enforce_side = S_both

\* the API-key fields of a request body, the stored record and the view
KeyFields ==
    {[body |-> "v1_guard_api_key", set |-> "v1_guard_api_key_set",
      masked |-> "v1_guard_api_key_masked"],
     [body |-> "v1fs_api_key", set |-> "v1fs_api_key_set",
      masked |-> "v1fs_api_key_masked"]}

\* C6: after an update that sets an API key (the submitted text without
\* the surrounding whitespace), the echoed configuration reports the key as
\* set and never shows it in full, the masked form differs from a key of 8
\* or more characters, and the store holds the key.
C6_KeysMasked ==
    \A f \in KeyFields :
        (req # NoBody /\ strip(req[f.body]) # <<>>)
        => LET key == strip(req[f.body])
           IN  /\ resp[f.set]
               /\ resp[f.masked] # key
               /\ Len(key) >= 8 => resp[f.masked] # key
               /\ config[f.body] = key

\* C7: an update replaces the record as a whole: no two updates are in the
\* middle of their field writes at once, and every finished read shows one
\* of the complete records given to the store.
C7_AtomicReplacement ==
    /\ Cardinality({t \in Threads : threads[t].op = "update" /\ threads[t].i > 1}) <= 1
    /\ \A t \in Threads :
          threads[t].op = "done"
          => \E c \in installed : threads[t].snap = ConfigView(c)

\* C8: once an upload request is over, on whatever path, its temporary
\* file is gone.
C8_UploadTempFileRemoved ==
    (scan.pc = "done" /\ scan.handler = "scan_uploaded_file")
    => scan.tmp_path \notin files

\* C9: a turn with the model URL unset, the model name unset or no message
\* ends with a 400 response and has made no outbound call, whatever the
\* Guard settings.
C9_ConfigErrorNoCalls ==
    (chat.pc # "idle" /\ (chat.base_url = <<>> \/ chat.model = <<>> \/ chat.messages = <<>>))
    => /\ chat.pc = "done"
       /\ chat.response.status = 400
       /\ chat.guardLog = <<>>
       /\ chat.guardPosts = 0
       /\ chat.ollamaCalls = 0

C9_Witness ==
    /\ chat.pc = "done"
    /\ chat.base_url = <<>>
    /\ chat.model # <<>>
    /\ chat.messages # <<>>
    /\ config.v1_guard_enabled
    /\ config.v1_guard_api_key # <<>>
    /\ config.enforce_side = S_both
    /\ chat.response.status = 400

\* a scanner result that reports malware: a scan-result field present and
\* truthy, or a found-malware list present and non-empty
SignalsMalware(v1fs_result) ==
    \/ "scanResult" \in DOMAIN v1fs_result /\ v1fs_result.scanResult # 0
    \/ "foundMalwares" \in DOMAIN v1fs_result /\ v1fs_result.foundMalwares # <<>>

\* C10: in the upload and in both fixed-sample mediations the returned
\* malicious flag is true exactly when the scanner is enabled and its
\* result reports malware.
C10_MaliciousFlagRule ==
    (scan.pc = "done" /\ scan.response.status = 200)
    => scan.response.body.malicious = (scan.enabled /\ SignalsMalware(scan.v1fs_result))

\* the verdict word of a Guard response object: the first of its fields
\* decision, action, recommendation that is present and non-empty, else
\* "allow"
VerdictWord(body) ==
    IF DictGet(body, "decision", <<>>) # <<>> THEN body.decision
    ELSE IF DictGet(body, "action", <<>>) # <<>> THEN body.action
    ELSE IF DictGet(body, "recommendation", <<>>) # <<>> THEN body.recommendation
    ELSE S_allow

\* a verdict follows the rule of the verdict word: malicious exactly when
\* the word is "block" in any letter case, allowed exactly when it is not
FollowsVerdictWord(v, word) ==
    /\ v.is_malicious = (lower(word) = S_block)
    /\ v.allowed = ~v.is_malicious
    /\ lower(word) = S_review => (~v.is_malicious /\ v.allowed)

C12_LastVerdictAttached ==
    (chat.pc = "done" /\ chat.response.status = 200)
    => LET guard == chat.response.body.guard
           n == Len(chat.guardLog)
       IN  /\ guard = (IF n = 0 THEN None
                       ELSE IF chat.guardLog[n].side = "assistant"
                            THEN chat.asstVerdict
                            ELSE chat.userVerdict)
           /\ n = 2 => (guard = chat.asstVerdict /\ chat.userCall # "none")
           /\ (guard = None) <=> (chat.guardLog = <<>>)

C12_Witness ==
    /\ chat.pc = "done"
    /\ chat.response.status = 200
    /\ Len(chat.guardLog) = 2
    /\ chat.userCall = "json"
    /\ chat.asstCall = "json"
    /\ chat.userVerdict # chat.asstVerdict
    /\ chat.response.body.guard = chat.asstVerdict

\* the turn has invoked Content Guard on the last user message
UserSideInvoked ==
    /\ chat.guardLog # <<>>
    /\ chat.guardLog[1] = [side |-> "user", text |-> chat.last_user]

\* the turn has invoked Content Guard on the model's reply
AssistantSideInvoked ==
    /\ chat.guardLog # <<>>
    /\ chat.guardLog[Len(chat.guardLog)].side = "assistant"

\* the model endpoint has answered the turn with a JSON object
ModelReplied == chat.data # None

\* the order of the calls of a turn: while the user-side call is pending
\* the model endpoint has not been called, and the assistant-side call
\* comes after the one model call, on its non-empty reply
GuardCallOrder ==
    /\ chat.pc = "guard_user" => (chat.ollamaCalls = 0 /\ Len(chat.guardLog) = 1)
    /\ (UserSideInvoked /\ chat.ollamaCalls = 1) => chat.userCall # "none"
    /\ AssistantSideInvoked
       => /\ chat.ollamaCalls = 1
          /\ ModelReplied
          /\ chat.guardLog[Len(chat.guardLog)].text # ""
          /\ Len(chat.guardLog) = 2 <=> UserSideInvoked

\* the assistant-side rule: once the model has replied, Content Guard has
\* been invoked on the reply exactly when the side is assistant or both and
\* the reply is non-empty
AssistantSideRule ==
    ModelReplied
    => (AssistantSideInvoked
        <=> (chat.enforce \in {S_assistant, S_both} /\ AssistantMessage(chat.data) # ""))

\* C13 as stated: in a turn with Guard enabled and keyed, Content Guard is
\* invoked on the most recent user message (the empty string if there is
\* none) before the model call exactly when the side is user or both, and
\* on the model's reply after the model call exactly when the side is
\* assistant or both and the reply is non-empty.
C13_SideSoleBranchPoint ==
    (PassedConfigCheck /\ GuardOn)
    => /\ UserSideInvoked <=> chat.enforce \in {S_user, S_both}
       /\ AssistantSideRule
       /\ GuardCallOrder

\* C13 amended: in a turn with Guard enabled and keyed, Content Guard is
\* invoked on the most recent user message before the model call exactly
\* when the side is user or both and that message is non-empty (a history
\* with no user message, or with an empty last user message, gets no
\* user-side check), and on the model's reply after the model call exactly
\* when the side is assistant or both and the reply is non-empty.
C13_SideAndNonEmptyText ==
    (PassedConfigCheck /\ GuardOn)
    => /\ UserSideInvoked
          <=> (chat.enforce \in {S_user, S_both} /\ LastUser(chat.messages) # "")
       /\ AssistantSideRule
       /\ GuardCallOrder

C13_Witness ==
    /\ chat.pc = "done"
    /\ GuardOn
    /\ chat.enforce = S_user
    /\ chat.messages = <<[role |-> "system", content |-> "sys"]>>
    /\ chat.guardLog = <<>>
    /\ chat.ollamaCalls = 1
    /\ ModelReplied
    /\ AssistantMessage(chat.data) = "reply"

\* the configuration values a chat turn works on, as the turn holds them
ChatLocals(c) ==
    <<c.base_url, c.model, c.enforce, c.guard_enabled, c.guard_key, c.guard_url,
      c.detailed>>

\* the same values as the configuration record holds them
ConfigRead(c) ==
    <<c.ollama_base_url, c.ollama_model, c.enforce_side, c.v1_guard_enabled,
      c.v1_guard_api_key, c.v1_guard_url_base, c.v1_guard_detailed>>

\* where a turn waits on an outbound call
Waiting == {"guard_user", "ollama", "guard_assistant"}

\* C14: a chat turn works on the configuration values it read at its
\* start.  The values a turn holds are those of the configuration at the
\* step that starts it; no step while the turn waits, a configuration update
\* included, changes them; the model request carries the held URL and
\* model name, each Guard call the held key and URL; whether the
\* assistant-side check runs on the model's reply is decided by the held
\* switch, key and side; and no step of the turn changes the configuration.
C14_TurnUsesConfigReadAtStart ==
    [][/\ (chat.pc \in {"idle", "done"} /\ chat'.pc \in Waiting)
          => ChatLocals(chat') = ConfigRead(config)
       /\ chat.pc \in Waiting => ChatLocals(chat') = ChatLocals(chat)
       /\ (chat'.pc = "ollama" /\ chat.pc # "ollama")
          => chat'.ollamaReq = OllamaRequest(chat'.base_url, chat'.model, chat'.messages)
       /\ (chat'.pc \in {"guard_user", "guard_assistant"} /\ chat'.pc # chat.pc)
          => chat'.guardArgs[Len(chat'.guardArgs)]
                = [api_key |-> chat'.guard_key, guard_url |-> chat'.guard_url]
       /\ (chat.pc = "ollama" /\ chat'.data # None)
          => (chat'.pc = "guard_assistant"
              <=> /\ chat.guard_enabled
                  /\ chat.guard_key # <<>>
                  /\ chat.enforce \in {S_assistant, S_both}
                  /\ AssistantMessage(chat'.data) # "")
       /\ chat' # chat => UNCHANGED cfgVars]_vars

C14_Witness ==
    /\ chat.pc = "guard_assistant"
    /\ Len(chat.guardLog) = 2
    /\ chat.enforce = S_both
    /\ chat.guard_key = <<"k">>
    /\ chat.guardArgs[2].api_key = <<"k">>
    /\ chat.ollamaReq.model = <<"m">>
    /\ config.v1_guard_api_key = <<>>
    /\ config.ollama_model = <<>>

====
